---- MODULE Spec2Model ----
(***************************************************************************)
(* Interval arithmetic of mnis.mnislib: the service-duration calculator    *)
(* getMembershipDays and the attribute resolver getConstituencyForMember / *)
(* getPartyForMember, with the date utilities they are built on.           *)
(*                                                                         *)
(* A datetime.date is a day number; the dates of mnis.housedata are their  *)
(* proleptic Gregorian ordinals (date.toordinal()).  An MNIS datetime      *)
(* string                                                                  *)
(* ("1987-06-11T00:00:00") is a record [date, time], its first ten         *)
(* characters and the rest; an EndDate that is not a string (the xsi:nil   *)
(* object of an open membership) is Nil.                                   *)
(* A function's outcome is a record [raised, value]: raised is "" when the *)
(* function returns value, and the MembershipError message otherwise.      *)
(***************************************************************************)
EXTENDS Integers, Sequences, FiniteSets, TLC

\* ------------------------------------------------------------------------
\* Bounds of the model
\* ------------------------------------------------------------------------

\* Dates are the day numbers 0..MaxDate.
MaxDate == 3

\* A table of dissolution periods has at most MaxPeriods entries.
MaxPeriods == 2

\* A member has at most MaxIntervals constituency (or party) memberships.
MaxIntervals == 2

\* The dates of constituency and party memberships are 0..MaxAttributeDate.
MaxAttributeDate == 2

\* The days after the eve of the last dissolution that house memberships
\* and queries of the service data reach.
MaxServiceDay == 2

\* The longest list of house memberships of a member.
MaxHouseMemberships == 2

\* The longest list of members given to getSummaryDataForMembers.
MaxMembers == 2

Dates == 0..MaxDate

\* MNIS gives every date as a datetime string at midnight.
MnisDatetimes == [date : Dates, time : {"T00:00:00"}]

\* The EndDate of an open membership: a value that is not a string.
Nil == [date |-> -1, time |-> "nil"]

\* isinstance(x, str) on an EndDate field.
isStr(x) == x # Nil

\* A house membership as getMembershipDays reads it.
Memberships == [StartDate : MnisDatetimes, EndDate : MnisDatetimes \cup {Nil}]

\* One entry of the houseDates dictionary: a dissolution and the election
\* that follows it, which may fall after the last date queried.
Periods == {p \in [dissolution : Dates, election : 0..(MaxDate + 1)] :
               p.dissolution < p.election}

RECURSIVE SeqsUpTo(_, _)
SeqsUpTo(S, n) ==
    IF n = 0 THEN {<<>>}
    ELSE LET shorter == SeqsUpTo(S, n - 1)
         IN shorter \cup {Append(s, x) : s \in {t \in shorter : Len(t) = n - 1}, x \in S}

\* houseDates as the loop of getMembershipDays sees it: the entries in the
\* order of sorted(houseDates.keys()).
HouseDateTables == SeqsUpTo(Periods, MaxPeriods)

Names == {"A", "B"}

AttributeDates == 0..MaxAttributeDate

AttributeDatetimes == [date : AttributeDates, time : {"T00:00:00"}]

\* A constituency or party membership as isDateInMembership and the
\* resolvers read it.
AttributeMemberships ==
    [StartDate : AttributeDatetimes,
     EndDate : AttributeDatetimes \cup {Nil},
     Name : Names]

\* member['Constituencies']['Constituency'] and member['Parties']['Party']
\* hold one membership object, or a list of them.
asObject(m) == [isList |-> FALSE, value |-> m]

asList(ms) == [isList |-> TRUE, value |-> ms]

\* isinstance(x, list)
isList(x) == x.isList

MembershipShapes ==
    {asObject(m) : m \in AttributeMemberships}
        \cup {asList(ms) : ms \in SeqsUpTo(AttributeMemberships, MaxIntervals)}

\* The member objects given to the resolvers.
Members ==
    {[Constituencies |-> [Constituency |-> x], Parties |-> [Party |-> x]] :
        x \in MembershipShapes}

\* A member without constituency or party memberships.
NoMember ==
    [Constituencies |-> [Constituency |-> asList(<<>>)],
     Parties |-> [Party |-> asList(<<>>)]]

VARIABLES
    pc,          \* "start" before the call, then the name of the last call
    member,      \* the member passed to the resolvers
    members,     \* the list of members passed to getSummaryDataForMembers
    membership,  \* the membership passed to getMembershipDays or
                 \* isDateInMembership
    range,       \* the startDate and endDate passed to isDateInRange
    onDate,      \* the query date
    houseDates,  \* the table of dissolution periods passed to getMembershipDays
    today,       \* datetime.date.today()
    result,      \* outcome of the last call
    prev         \* query date and outcome of the call before the last one

vars ==
    <<pc, member, members, membership, range, onDate, houseDates, today,
      result, prev>>

\* ------------------------------------------------------------------------
\* Outcomes
\* ------------------------------------------------------------------------

Return(v) == [raised |-> "", value |-> v]

\* An exception leaves the function without a value: none stands for it.
RaiseAs(msg, none) == [raised |-> msg, value |-> none]

Raise(msg) == RaiseAs(msg, 0)

NoResult == [raised |-> "not called", value |-> 0]

NoPrev == [onDate |-> -1, result |-> NoResult]

\* No dates passed to isDateInRange.
NoRange == [startDate |-> 0, endDate |-> 0]

StartAfterEnd == "startDate after endDate in getMembershipDays"

ShouldntHappen == "Shouldn't happen in getMembershipDays"

StartLaterThanEnd == "startDate later than endDate in isDateInRange"

\* ------------------------------------------------------------------------
\* Utility functions
\* ------------------------------------------------------------------------

\* mnisDatetime[:10] parsed as a date: the time of day is dropped.
convertMnisDatetime(mnisDatetime) == mnisDatetime.date

\* isDateInRange that returns False for a startDate later than the endDate.
isDateInRange_SilentOnMalformed(d, startDate, endDate) ==
    Return(d >= startDate /\ d <= endDate)

\* isDateInRange with an exclusive endDate.
isDateInRange_ExclusiveEnd(d, startDate, endDate) ==
    IF startDate > endDate THEN RaiseAs(StartLaterThanEnd, FALSE)
    ELSE Return(d >= startDate /\ d < endDate)

isDateInRange(d, startDate, endDate) ==
    IF startDate > endDate THEN RaiseAs(StartLaterThanEnd, FALSE)
    ELSE Return(d >= startDate /\ d <= endDate)

\* ------------------------------------------------------------------------
\* The attribute resolvers
\* ------------------------------------------------------------------------

\* isDateInMembership that ends an open membership on the date asked
\* about, as getMembershipDays does, and not today.
isDateInMembership_OpenToOnDate(m, d) ==
    LET startDate == convertMnisDatetime(m.StartDate)
        endDate == IF isStr(m.EndDate) THEN convertMnisDatetime(m.EndDate)
                   ELSE d
    IN isDateInRange(d, startDate, endDate)

isDateInMembership(m, d) ==
    LET startDate == convertMnisDatetime(m.StartDate)
        endDate == IF isStr(m.EndDate) THEN convertMnisDatetime(m.EndDate)
                   ELSE today
    IN isDateInRange(d, startDate, endDate)

\* 'Not serving on {0}'.format(onDate)
NotServingOn(d) == "Not serving on " \o ToString(d)

\* The loop over constituencyMembership without its break: the last
\* membership that holds the date gives the name.
RECURSIVE scanConstituencies_NoBreak(_, _, _, _)
scanConstituencies_NoBreak(memberships, i, d, constituencyName) ==
    IF i > Len(memberships) THEN Return(constituencyName)
    ELSE LET inMembership == isDateInMembership(memberships[i], d)
         IN IF inMembership.raised # "" THEN RaiseAs(inMembership.raised, "")
            ELSE IF inMembership.value
                 THEN scanConstituencies_NoBreak(memberships, i + 1, d,
                                                 memberships[i].Name)
                 ELSE scanConstituencies_NoBreak(memberships, i + 1, d,
                                                 constituencyName)

\* The loop over the list constituencyMembership from element i on.
RECURSIVE scanConstituencies(_, _, _, _)
scanConstituencies(memberships, i, d, constituencyName) ==
    IF i > Len(memberships) THEN Return(constituencyName)
    ELSE LET inMembership == isDateInMembership(memberships[i], d)
         IN IF inMembership.raised # "" THEN RaiseAs(inMembership.raised, "")
            ELSE IF inMembership.value THEN Return(memberships[i].Name)
                 ELSE scanConstituencies(memberships, i + 1, d, constituencyName)

getConstituencyForMember(mem, d) ==
    LET constituencyMembership == mem.Constituencies.Constituency
        constituencyName == NotServingOn(d)
    IN IF isList(constituencyMembership)
       THEN scanConstituencies(constituencyMembership.value, 1, d,
                               constituencyName)
       ELSE LET m == constituencyMembership.value
                inMembership == isDateInMembership(m, d)
            IN IF inMembership.raised # "" THEN RaiseAs(inMembership.raised, "")
               ELSE IF inMembership.value THEN Return(m.Name)
                    ELSE Return(constituencyName)

\* The loop over the list partyMembership from element i on.
RECURSIVE scanParties(_, _, _, _)
scanParties(memberships, i, d, partyName) ==
    IF i > Len(memberships) THEN Return(partyName)
    ELSE LET inMembership == isDateInMembership(memberships[i], d)
         IN IF inMembership.raised # "" THEN RaiseAs(inMembership.raised, "")
            ELSE IF inMembership.value THEN Return(memberships[i].Name)
                 ELSE scanParties(memberships, i + 1, d, partyName)

getPartyForMember(mem, d) ==
    LET partyMembership == mem.Parties.Party
        partyName == NotServingOn(d)
    IN IF isList(partyMembership)
       THEN scanParties(partyMembership.value, 1, d, partyName)
       ELSE LET m == partyMembership.value
                inMembership == isDateInMembership(m, d)
            IN IF inMembership.raised # "" THEN RaiseAs(inMembership.raised, "")
               ELSE IF inMembership.value THEN Return(m.Name)
                    ELSE Return(partyName)

\* ------------------------------------------------------------------------
\* getMembershipDays
\* ------------------------------------------------------------------------

\* dissolutionDelta without the test "election <= endDate" of the first
\* branch: a dissolution that runs past endDate is removed whole.
dissolutionDelta_NoTailTrim(e, startDate, endDate) ==
    LET election == e.election
        dissolution == e.dissolution
    IN IF dissolution >= startDate
       THEN IF dissolution < endDate
            THEN Return(election - dissolution)
            ELSE Return(0)
       ELSE IF election > startDate
            THEN IF election <= endDate
                 THEN Return(election - startDate)
                 ELSE Return(endDate - startDate)
            ELSE Return(0)

\* dissolutionDelta with "dissolution > startDate" as its first test: a
\* dissolution that starts on startDate reaches the final else.
dissolutionDelta_StrictAfter(e, startDate, endDate) ==
    LET election == e.election
        dissolution == e.dissolution
    IN IF dissolution > startDate
       THEN IF dissolution < endDate
            THEN IF election <= endDate
                 THEN Return(election - dissolution)
                 ELSE Return(endDate - dissolution)
            ELSE Return(0)
       ELSE IF dissolution < startDate
       THEN IF election > startDate
            THEN IF election <= endDate
                 THEN Return(election - startDate)
                 ELSE Return(endDate - startDate)
            ELSE Return(0)
       ELSE Raise(ShouldntHappen)

\* dissolutionDelta without the test "dissolution < endDate": a dissolution
\* that starts on or after endDate is not skipped.
dissolutionDelta_NoAfterCheck(e, startDate, endDate) ==
    LET election == e.election
        dissolution == e.dissolution
    IN IF dissolution >= startDate
       THEN IF election <= endDate
            THEN Return(election - dissolution)
            ELSE Return(endDate - dissolution)
       ELSE IF election > startDate
            THEN IF election <= endDate
                 THEN Return(election - startDate)
                 ELSE Return(endDate - startDate)
            ELSE Return(0)

\* One pass of the loop body over the entry e: the days it removes from
\* serviceDays, or the error it raises.
dissolutionDelta(e, startDate, endDate) ==
    LET election == e.election
        dissolution == e.dissolution
    IN IF dissolution >= startDate
       THEN IF dissolution < endDate
            THEN IF election <= endDate
                 THEN Return(election - dissolution)
                 ELSE Return(endDate - dissolution)
            ELSE Return(0)
       ELSE IF dissolution < startDate
       THEN IF election > startDate
            THEN IF election <= endDate
                 THEN Return(election - startDate)
                 ELSE Return(endDate - startDate)
            ELSE Return(0)
       ELSE Raise(ShouldntHappen)

\* The loop "for e in elections" from entry i on, with serviceDays so far.
RECURSIVE removeDissolutions(_, _, _, _, _)
removeDissolutions(table, i, startDate, endDate, serviceDays) ==
    IF i > Len(table) THEN Return(serviceDays)
    ELSE LET delta == dissolutionDelta(table[i], startDate, endDate)
         IN IF delta.raised # "" THEN delta
            ELSE removeDissolutions(table, i + 1, startDate, endDate,
                                    serviceDays - delta.value)

\* clampEndDate that leaves an endDate after the onDate as it is.
clampEndDate_NoClamp(endDate, d) == endDate

\* endDate after "if endDate > onDate: endDate = onDate".
clampEndDate(endDate, d) == IF endDate > d THEN d ELSE endDate

\* endDate as first assigned: onDate, or the membership's end if closed.
\* The end date of a membership taken as open whatever its EndDate.
membershipEndDate_AlwaysOpen(m, d) == d

\* The end date of an open membership taken from the current date.
membershipEndDate_OpenToToday(m, d) ==
    IF isStr(m.EndDate) THEN convertMnisDatetime(m.EndDate) ELSE today

membershipEndDate(m, d) ==
    IF isStr(m.EndDate) THEN convertMnisDatetime(m.EndDate) ELSE d

\* getMembershipDays that raises when startDate >= endDate.
getMembershipDays_RaiseOnEqual(m, d, table) ==
    LET startDate == convertMnisDatetime(m.StartDate)
        endDate0 == membershipEndDate(m, d)
    IN IF startDate >= d THEN Return(0)
       ELSE LET endDate == clampEndDate(endDate0, d)
            IN IF startDate >= endDate THEN Raise(StartAfterEnd)
               ELSE removeDissolutions(table, 1, startDate, endDate,
                                       endDate - startDate)

\* getMembershipDays that returns zero only when startDate > onDate.
getMembershipDays_StrictEarlyReturn(m, d, table) ==
    LET startDate == convertMnisDatetime(m.StartDate)
        endDate0 == membershipEndDate(m, d)
    IN IF startDate > d THEN Return(0)
       ELSE LET endDate == clampEndDate(endDate0, d)
            IN IF startDate > endDate THEN Raise(StartAfterEnd)
               ELSE removeDissolutions(table, 1, startDate, endDate,
                                       endDate - startDate)

\* getMembershipDays whose initial service length is taken from the end
\* date before it is clamped to the onDate.
getMembershipDays_UnclampedBase(m, d, table) ==
    LET startDate == convertMnisDatetime(m.StartDate)
        endDate0 == membershipEndDate(m, d)
    IN IF startDate >= d THEN Return(0)
       ELSE LET endDate == clampEndDate(endDate0, d)
            IN IF startDate > endDate THEN Raise(StartAfterEnd)
               ELSE removeDissolutions(table, 1, startDate, endDate,
                                       endDate0 - startDate)

getMembershipDays(m, d, table) ==
    LET startDate == convertMnisDatetime(m.StartDate)
        endDate0 == membershipEndDate(m, d)
    IN IF startDate >= d THEN Return(0)
       ELSE LET endDate == clampEndDate(endDate0, d)
            IN IF startDate > endDate THEN Raise(StartAfterEnd)
               ELSE removeDissolutions(table, 1, startDate, endDate,
                                       endDate - startDate)

\* ------------------------------------------------------------------------
\* Specification of the service-duration calculator: the inputs are drawn
\* by Init, CallGetMembershipDays applies the function, and QueryNextDay
\* applies it again to the same membership and table one day later.
\* ------------------------------------------------------------------------

InitDays ==
    /\ pc = "start"
    /\ member = NoMember
    /\ members = <<>>
    /\ range = NoRange
    /\ membership \in Memberships
    /\ onDate \in Dates
    /\ houseDates \in HouseDateTables
    /\ today = 0
    /\ result = NoResult
    /\ prev = NoPrev

CallGetMembershipDays ==
    /\ pc = "start"
    /\ pc' = "getMembershipDays"
    /\ result' = getMembershipDays(membership, onDate, houseDates)
    /\ UNCHANGED <<member, members, membership, range, onDate, houseDates,
                   today, prev>>

QueryNextDay ==
    /\ pc = "getMembershipDays"
    /\ onDate < MaxDate
    /\ onDate' = onDate + 1
    /\ prev' = [onDate |-> onDate, result |-> result]
    /\ result' = getMembershipDays(membership, onDate + 1, houseDates)
    /\ UNCHANGED <<pc, member, members, membership, range, houseDates, today>>

NextDays == CallGetMembershipDays \/ QueryNextDay

SpecDays == InitDays /\ [][NextDays]_vars

\* ------------------------------------------------------------------------
\* Specification of the attribute resolvers: Init draws the member, the
\* query date and the current date, and each action applies one resolver.
\* ------------------------------------------------------------------------

InitResolver ==
    /\ pc = "start"
    /\ member \in Members
    /\ members = <<>>
    /\ range = NoRange
    /\ onDate \in AttributeDates
    /\ today \in AttributeDates
    /\ membership = [StartDate |-> [date |-> 0, time |-> "T00:00:00"],
                     EndDate |-> Nil]
    /\ houseDates = <<>>
    /\ result = NoResult
    /\ prev = NoPrev

CallGetConstituencyForMember ==
    /\ pc = "start"
    /\ pc' = "getConstituencyForMember"
    /\ result' = getConstituencyForMember(member, onDate)
    /\ UNCHANGED <<member, members, membership, range, onDate, houseDates,
                   today, prev>>

CallGetPartyForMember ==
    /\ pc = "start"
    /\ pc' = "getPartyForMember"
    /\ result' = getPartyForMember(member, onDate)
    /\ UNCHANGED <<member, members, membership, range, onDate, houseDates,
                   today, prev>>

NextResolver == CallGetConstituencyForMember \/ CallGetPartyForMember

SpecResolver == InitResolver /\ [][NextResolver]_vars

\* ------------------------------------------------------------------------
\* Specification of the date checks: Init draws a membership, a pair of
\* dates, the query date and the current date; one action applies
\* isDateInMembership and one isDateInRange.
\* ------------------------------------------------------------------------

\* A membership as isDateInMembership reads it.
DatedMemberships ==
    [StartDate : AttributeDatetimes, EndDate : AttributeDatetimes \cup {Nil}]

InitDateChecks ==
    /\ pc = "start"
    /\ member = NoMember
    /\ members = <<>>
    /\ membership \in DatedMemberships
    /\ range \in [startDate : AttributeDates, endDate : AttributeDates]
    /\ onDate \in AttributeDates
    /\ today \in AttributeDates
    /\ houseDates = <<>>
    /\ result = NoResult
    /\ prev = NoPrev

CallIsDateInMembership ==
    /\ pc = "start"
    /\ pc' = "isDateInMembership"
    /\ result' = isDateInMembership(membership, onDate)
    /\ UNCHANGED <<member, members, membership, range, onDate, houseDates,
                   today, prev>>

CallIsDateInRange ==
    /\ pc = "start"
    /\ pc' = "isDateInRange"
    /\ result' = isDateInRange(onDate, range.startDate, range.endDate)
    /\ UNCHANGED <<member, members, membership, range, onDate, houseDates,
                   today, prev>>

NextDateChecks == CallIsDateInMembership \/ CallIsDateInRange

SpecDateChecks == InitDateChecks /\ [][NextDateChecks]_vars

\* ------------------------------------------------------------------------
\* mnis.housedata: the dissolution and election dates of each general
\* election since 1929, as date.toordinal() day numbers, in the order of
\* sorted(dates.keys()), which is the order the source lists them in.
\* ------------------------------------------------------------------------

\* The table with the entries for 1929 and 1931 in each other's place.
housedata_dates_Swapped ==
    <<[dissolution |-> 705198, election |-> 705217],  \* 1931
      [dissolution |-> 704317, election |-> 704337],  \* 1929
      [dissolution |-> 706676, election |-> 706696],  \* 1935
      [dissolution |-> 710197, election |-> 710217],  \* 1945
      [dissolution |-> 711891, election |-> 711911],  \* 1950
      [dissolution |-> 712500, election |-> 712520],  \* 1951
      [dissolution |-> 713809, election |-> 713829],  \* 1955
      [dissolution |-> 715405, election |-> 715425],  \* 1959
      [dissolution |-> 717239, election |-> 717259],  \* 1964
      [dissolution |-> 717770, election |-> 717791],  \* 1966
      [dissolution |-> 719311, election |-> 719331],  \* 1970
      [dissolution |-> 720662, election |-> 720682],  \* 1974 (Feb)
      [dissolution |-> 720886, election |-> 720906],  \* 1974 (Oct)
      [dissolution |-> 722546, election |-> 722572],  \* 1979
      [dissolution |-> 724043, election |-> 724070],  \* 1983
      [dissolution |-> 725509, election |-> 725533],  \* 1987
      [dissolution |-> 727273, election |-> 727297],  \* 1992
      [dissolution |-> 729122, election |-> 729145],  \* 1997
      [dissolution |-> 730619, election |-> 730643],  \* 2001
      [dissolution |-> 732047, election |-> 732071],  \* 2005
      [dissolution |-> 733874, election |-> 733898],  \* 2010
      [dissolution |-> 735687, election |-> 735725]>> \* 2015

housedata_dates ==
    <<[dissolution |-> 704317, election |-> 704337],  \* 1929
      [dissolution |-> 705198, election |-> 705217],  \* 1931
      [dissolution |-> 706676, election |-> 706696],  \* 1935
      [dissolution |-> 710197, election |-> 710217],  \* 1945
      [dissolution |-> 711891, election |-> 711911],  \* 1950
      [dissolution |-> 712500, election |-> 712520],  \* 1951
      [dissolution |-> 713809, election |-> 713829],  \* 1955
      [dissolution |-> 715405, election |-> 715425],  \* 1959
      [dissolution |-> 717239, election |-> 717259],  \* 1964
      [dissolution |-> 717770, election |-> 717791],  \* 1966
      [dissolution |-> 719311, election |-> 719331],  \* 1970
      [dissolution |-> 720662, election |-> 720682],  \* 1974 (Feb)
      [dissolution |-> 720886, election |-> 720906],  \* 1974 (Oct)
      [dissolution |-> 722546, election |-> 722572],  \* 1979
      [dissolution |-> 724043, election |-> 724070],  \* 1983
      [dissolution |-> 725509, election |-> 725533],  \* 1987
      [dissolution |-> 727273, election |-> 727297],  \* 1992
      [dissolution |-> 729122, election |-> 729145],  \* 1997
      [dissolution |-> 730619, election |-> 730643],  \* 2001
      [dissolution |-> 732047, election |-> 732071],  \* 2005
      [dissolution |-> 733874, election |-> 733898],  \* 2010
      [dissolution |-> 735687, election |-> 735725]>> \* 2015

\* The dates of the table that the recorded service of a long membership
\* is measured between.
Election1987 == 725533

Dissolution1997 == 729122

Dissolution2015 == 735687

Election2015 == 735725

\* ------------------------------------------------------------------------
\* Specification of the service days under the table of mnis.housedata:
\* Init draws a membership that starts on an election day and ends on a
\* dissolution day or is open, and a query date among the days of the
\* table; the action applies getMembershipDays with the table.
\* ------------------------------------------------------------------------

ElectionDays == {housedata_dates[i].election : i \in DOMAIN housedata_dates}

DissolutionDays ==
    {housedata_dates[i].dissolution : i \in DOMAIN housedata_dates}

HistoricalMemberships ==
    [StartDate : [date : ElectionDays, time : {"T00:00:00"}],
     EndDate : [date : DissolutionDays, time : {"T00:00:00"}] \cup {Nil}]

InitHistory ==
    /\ pc = "start"
    /\ member = NoMember
    /\ members = <<>>
    /\ range = NoRange
    /\ membership \in HistoricalMemberships
    /\ onDate \in ElectionDays \cup DissolutionDays
    /\ houseDates = housedata_dates
    /\ today = Election2015
    /\ result = NoResult
    /\ prev = NoPrev

NextHistory == CallGetMembershipDays

SpecHistory == InitHistory /\ [][NextHistory]_vars

\* ------------------------------------------------------------------------
\* getServiceDataForMember
\* ------------------------------------------------------------------------

\* The message of the IndexError of startDates[0] on an empty list.
ListIndexOutOfRange == "list index out of range"

\* What a failed getServiceDataForMember leaves in place of its pair.
NoServiceData == <<0, 0>>

\* startDates left in the order the memberships were read.
sort_Unsorted(s) == s

\* startDates.sort(): the dates in ascending order.
RECURSIVE sort(_)
sort(s) ==
    IF s = <<>> THEN <<>>
    ELSE LET least == CHOOSE i \in DOMAIN s : \A j \in DOMAIN s : s[i] <= s[j]
             rest == [k \in 1..(Len(s) - 1) |->
                         IF k < least THEN s[k] ELSE s[k + 1]]
         IN <<s[least]>> \o sort(rest)

\* The loop over a list of house memberships that counts every membership,
\* whatever its House.
RECURSIVE addCommonsService_AnyHouse(_, _, _, _, _)
addCommonsService_AnyHouse(memberships, i, d, serviceDays, startDates) ==
    IF i > Len(memberships)
    THEN [raised |-> "", serviceDays |-> serviceDays, startDates |-> startDates]
    ELSE LET daysService == getMembershipDays(memberships[i], d, houseDates)
         IN IF daysService.raised # ""
            THEN [raised |-> daysService.raised, serviceDays |-> serviceDays,
                  startDates |-> startDates]
            ELSE addCommonsService_AnyHouse(memberships, i + 1, d,
                     serviceDays + daysService.value,
                     Append(startDates,
                            convertMnisDatetime(memberships[i].StartDate)))

\* The loop over the house memberships from the i-th on: each Commons
\* membership adds its days to serviceDays and its start to startDates; an
\* error of getMembershipDays ends the loop.  getMembershipDays is called
\* with its default houseDates, the table of mnis.housedata.
RECURSIVE addCommonsService(_, _, _, _, _)
addCommonsService(memberships, i, d, serviceDays, startDates) ==
    IF i > Len(memberships)
    THEN [raised |-> "", serviceDays |-> serviceDays, startDates |-> startDates]
    ELSE IF memberships[i].House = "Commons"
         THEN LET daysService ==
                      getMembershipDays(memberships[i], d, houseDates)
              IN IF daysService.raised # ""
                 THEN [raised |-> daysService.raised,
                       serviceDays |-> serviceDays, startDates |-> startDates]
                 ELSE addCommonsService(memberships, i + 1, d,
                          serviceDays + daysService.value,
                          Append(startDates,
                                 convertMnisDatetime(memberships[i].StartDate)))
         ELSE addCommonsService(memberships, i + 1, d, serviceDays, startDates)

\* getServiceDataForMember that counts a membership given as one object
\* whatever its House.
getServiceDataForMember_SingleAnyHouse(mem, d) ==
    LET houseMembership == mem.HouseMemberships.HouseMembership
        counted == IF isList(houseMembership)
                   THEN addCommonsService(houseMembership.value, 1, d, 0, <<>>)
                   ELSE addCommonsService_AnyHouse(<<houseMembership.value>>,
                                                   1, d, 0, <<>>)
    IN IF counted.raised # "" THEN RaiseAs(counted.raised, NoServiceData)
       ELSE IF counted.startDates = <<>>
            THEN RaiseAs(ListIndexOutOfRange, NoServiceData)
            ELSE Return(<<sort(counted.startDates)[1], counted.serviceDays>>)

getServiceDataForMember(mem, d) ==
    LET houseMembership == mem.HouseMemberships.HouseMembership
        counted == IF isList(houseMembership)
                   THEN addCommonsService(houseMembership.value, 1, d, 0, <<>>)
                   ELSE addCommonsService(<<houseMembership.value>>, 1, d, 0,
                                          <<>>)
    IN IF counted.raised # "" THEN RaiseAs(counted.raised, NoServiceData)
       ELSE IF counted.startDates = <<>>
            THEN RaiseAs(ListIndexOutOfRange, NoServiceData)
            ELSE Return(<<sort(counted.startDates)[1], counted.serviceDays>>)

\* ------------------------------------------------------------------------
\* Specification of the service data: Init draws a member, whose house
\* memberships lie around the dissolution of 2015, and the query date; the
\* table is that of mnis.housedata and the current date the last of the
\* days drawn, no membership starting in the future.  One action applies
\* getServiceDataForMember, and one each resolver.
\* ------------------------------------------------------------------------

\* The days from the eve of the last dissolution of the table.
ServiceDates ==
    LET eve == housedata_dates[Len(housedata_dates)].dissolution - 1
    IN eve..(eve + MaxServiceDay)

ServiceDatetimes == [date : ServiceDates, time : {"T00:00:00"}]

Houses == {"Commons", "Lords"}

\* A house membership as getServiceDataForMember reads it.
HouseMemberships ==
    [StartDate : ServiceDatetimes,
     EndDate : ServiceDatetimes \cup {Nil},
     House : Houses]

\* member['HouseMemberships']['HouseMembership'] holds one membership
\* object, or a list of them.
HouseMembershipShapes ==
    {asObject(m) : m \in HouseMemberships}
        \cup {asList(ms) : ms \in SeqsUpTo(HouseMemberships,
                                           MaxHouseMemberships)}

\* The constituency or party membership of the same dates as a house
\* membership.
seatOf(m) ==
    [StartDate |-> m.StartDate, EndDate |-> m.EndDate,
     Name |-> IF m.House = "Commons" THEN "A" ELSE "B"]

seatsOf(x) ==
    IF isList(x)
    THEN asList([i \in DOMAIN x.value |-> seatOf(x.value[i])])
    ELSE asObject(seatOf(x.value))

\* The member objects given to getServiceDataForMember: the constituency
\* and party memberships run with the house memberships.
ServiceMembers ==
    {[Constituencies |-> [Constituency |-> seatsOf(x)],
      Parties |-> [Party |-> seatsOf(x)],
      HouseMemberships |-> [HouseMembership |-> x]] :
        x \in HouseMembershipShapes}

InitService ==
    /\ pc = "start"
    /\ member \in ServiceMembers
    /\ members = <<>>
    /\ membership = [StartDate |-> [date |-> 0, time |-> "T00:00:00"],
                     EndDate |-> Nil]
    /\ range = NoRange
    /\ onDate \in ServiceDates
    /\ today = CHOOSE d \in ServiceDates : \A e \in ServiceDates : e <= d
    /\ houseDates = housedata_dates
    /\ result = NoResult
    /\ prev = NoPrev

CallGetServiceDataForMember ==
    /\ pc = "start"
    /\ pc' = "getServiceDataForMember"
    /\ result' = getServiceDataForMember(member, onDate)
    /\ UNCHANGED <<member, members, membership, range, onDate, houseDates,
                   today, prev>>

NextService ==
    \/ CallGetServiceDataForMember
    \/ CallGetConstituencyForMember
    \/ CallGetPartyForMember

SpecService == InitService /\ [][NextService]_vars

\* ------------------------------------------------------------------------
\* getSummaryDataForMembers
\* ------------------------------------------------------------------------

\* member['@Member_Id']
getIdForMember(mem) == mem.Member_Id

getListNameForMember(mem) == mem.ListAs

getGenderForMember(mem) == mem.Gender

getDateOfBirthForMember(mem) ==
    IF isStr(mem.DateOfBirth) THEN convertMnisDatetime(mem.DateOfBirth)
    ELSE ""

\* The body of the loop for one member: the dictionary memberData, or the
\* first error that one of the calls raises.
memberData(mem, d) ==
    LET constituency == getConstituencyForMember(mem, d)
        party == getPartyForMember(mem, d)
        service == getServiceDataForMember(mem, d)
    IN IF constituency.raised # "" THEN RaiseAs(constituency.raised, <<>>)
       ELSE IF party.raised # "" THEN RaiseAs(party.raised, <<>>)
       ELSE IF service.raised # "" THEN RaiseAs(service.raised, <<>>)
       ELSE Return([member_id |-> getIdForMember(mem),
                    list_name |-> getListNameForMember(mem),
                    constituency |-> constituency.value,
                    party |-> party.value,
                    date_of_birth |-> getDateOfBirthForMember(mem),
                    gender |-> getGenderForMember(mem),
                    first_start_date |-> service.value[1],
                    days_service |-> service.value[2]])

\* The loop that leaves out a member whose data cannot be produced.
RECURSIVE summarise_SkipFailed(_, _, _, _)
summarise_SkipFailed(mems, i, d, summary) ==
    IF i > Len(mems) THEN Return(summary)
    ELSE LET data == memberData(mems[i], d)
         IN IF data.raised # ""
            THEN summarise_SkipFailed(mems, i + 1, d, summary)
            ELSE summarise_SkipFailed(mems, i + 1, d,
                                      Append(summary, data.value))

\* The loop over the members from the i-th on: each member's data is
\* appended to summary; an error ends the loop and the call.
RECURSIVE summarise(_, _, _, _)
summarise(mems, i, d, summary) ==
    IF i > Len(mems) THEN Return(summary)
    ELSE LET data == memberData(mems[i], d)
         IN IF data.raised # "" THEN RaiseAs(data.raised, <<>>)
            ELSE summarise(mems, i + 1, d, Append(summary, data.value))

getSummaryDataForMembers(mems, d) == summarise(mems, 1, d, <<>>)

\* ------------------------------------------------------------------------
\* Specification of the summary: Init draws a list of members, each with
\* one house membership and the constituency and party of the same dates,
\* and the query date; the action applies getSummaryDataForMembers.
\* ------------------------------------------------------------------------

\* The member object of one house membership, named after it.
summaryMember(m) ==
    LET id == m.House \o " " \o ToString(m.StartDate.date) \o "/"
                  \o (IF isStr(m.EndDate) THEN ToString(m.EndDate.date)
                      ELSE "")
    IN [Member_Id |-> id,
        ListAs |-> "Member, " \o id,
        DateOfBirth |-> [date |-> Election1987, time |-> "T00:00:00"],
        Gender |-> "F",
        Constituencies |-> [Constituency |-> asObject(seatOf(m))],
        Parties |-> [Party |-> asObject(seatOf(m))],
        HouseMemberships |-> [HouseMembership |-> asObject(m)]]

SummaryMembers == {summaryMember(m) : m \in HouseMemberships}

InitSummary ==
    /\ pc = "start"
    /\ member = NoMember
    /\ members \in SeqsUpTo(SummaryMembers, MaxMembers)
    /\ membership = [StartDate |-> [date |-> 0, time |-> "T00:00:00"],
                     EndDate |-> Nil]
    /\ range = NoRange
    /\ onDate \in ServiceDates
    /\ today = CHOOSE d \in ServiceDates : \A e \in ServiceDates : e <= d
    /\ houseDates = housedata_dates
    /\ result = NoResult
    /\ prev = NoPrev

CallGetSummaryDataForMembers ==
    /\ pc = "start"
    /\ pc' = "getSummaryDataForMembers"
    /\ result' = getSummaryDataForMembers(members, onDate)
    /\ UNCHANGED <<member, members, membership, range, onDate, houseDates,
                   today, prev>>

NextSummary == CallGetSummaryDataForMembers

SpecSummary == InitSummary /\ [][NextSummary]_vars

\* ------------------------------------------------------------------------
\* Specification of calls repeated on another day: Init draws the inputs of
\* getMembershipDays or of a resolver together with the current date; after
\* the call, the same call is made again with the same inputs on a
\* different current date, and prev keeps the earlier result.
\* ------------------------------------------------------------------------

\* A table of one dissolution period at most.
ShortHouseDateTables ==
    {<<>>} \cup {<<p>> : p \in {q \in [dissolution : AttributeDates,
                                        election : 0..(MaxAttributeDate + 1)] :
                                    q.dissolution < q.election}}

\* The constituency (or party) named after the dates it was held between.
namedSeat(m) ==
    [StartDate |-> m.StartDate, EndDate |-> m.EndDate,
     Name |-> ToString(m.StartDate.date) \o "/"
                 \o (IF isStr(m.EndDate) THEN ToString(m.EndDate.date)
                     ELSE "")]

NamedMemberships == {namedSeat(m) : m \in DatedMemberships}

\* The member objects whose memberships differ in name when they differ in
\* dates.
NamedMembers ==
    {[Constituencies |-> [Constituency |-> x], Parties |-> [Party |-> x]] :
        x \in {asObject(m) : m \in NamedMemberships}
                 \cup {asList(ms) :
                          ms \in SeqsUpTo(NamedMemberships, MaxIntervals)}}

InitRepeatedDays ==
    /\ pc = "start"
    /\ member = NoMember
    /\ members = <<>>
    /\ range = NoRange
    /\ membership \in DatedMemberships
    /\ onDate \in AttributeDates
    /\ houseDates \in ShortHouseDateTables
    /\ today \in AttributeDates
    /\ result = NoResult
    /\ prev = NoPrev

InitRepeatedResolver ==
    /\ pc = "start"
    /\ member \in NamedMembers
    /\ members = <<>>
    /\ range = NoRange
    /\ membership = [StartDate |-> [date |-> 0, time |-> "T00:00:00"],
                     EndDate |-> Nil]
    /\ onDate \in AttributeDates
    /\ houseDates = <<>>
    /\ today \in AttributeDates
    /\ result = NoResult
    /\ prev = NoPrev

InitRepeated == InitRepeatedDays \/ InitRepeatedResolver

\* The call made last, with the inputs as they are.
lastCall ==
    CASE pc = "getMembershipDays" ->
             getMembershipDays(membership, onDate, houseDates)
      [] pc = "getConstituencyForMember" ->
             getConstituencyForMember(member, onDate)
      [] pc = "getPartyForMember" -> getPartyForMember(member, onDate)

CallAgainOnAnotherDay ==
    /\ pc \in {"getMembershipDays", "getConstituencyForMember",
               "getPartyForMember"}
    /\ UNCHANGED <<pc, member, members, membership, range, onDate, houseDates>>
    /\ \E d \in AttributeDates \ {today} : today' = d
    /\ prev' = [onDate |-> onDate, result |-> result]
    /\ result' = lastCall'

NextRepeated ==
    \/ CallGetMembershipDays
    \/ CallGetConstituencyForMember
    \/ CallGetPartyForMember
    \/ CallAgainOnAnotherDay

SpecRepeated == InitRepeated /\ [][NextRepeated]_vars

\* ------------------------------------------------------------------------
\* Specification of the service of one membership and of a member: Init
\* draws the inputs of getMembershipDays, with any table, or those of
\* getServiceDataForMember, with the table of mnis.housedata; one action
\* applies each function.
\* ------------------------------------------------------------------------

\* A member without memberships of any kind.
NoHouseMember ==
    [Constituencies |-> [Constituency |-> asList(<<>>)],
     Parties |-> [Party |-> asList(<<>>)],
     HouseMemberships |-> [HouseMembership |-> asList(<<>>)]]

InitMembershipDays ==
    /\ pc = "start"
    /\ member = NoHouseMember
    /\ members = <<>>
    /\ range = NoRange
    /\ membership \in Memberships
    /\ onDate \in Dates
    /\ houseDates \in HouseDateTables
    /\ today = 0
    /\ result = NoResult
    /\ prev = NoPrev

InitServiceDays == InitMembershipDays \/ InitService

NextServiceDays == CallGetMembershipDays \/ CallGetServiceDataForMember

SpecServiceDays == InitServiceDays /\ [][NextServiceDays]_vars

\* ------------------------------------------------------------------------
\* Vocabulary of the properties of getMembershipDays
\* ------------------------------------------------------------------------

Min(a, b) == IF a < b THEN a ELSE b

Max(a, b) == IF a > b THEN a ELSE b

Called == pc = "getMembershipDays"

\* The membership's start date.
Start == membership.StartDate.date

Closed == membership.EndDate # Nil

\* The concrete end, or the query date d if the end is open, clamped to d.
EffectiveEndAt(d) == IF Closed THEN Min(membership.EndDate.date, d) ELSE d

EffectiveEnd == EffectiveEndAt(onDate)

\* Length of the intersection of [b.dissolution, b.election) and [s, e].
Overlap(b, s, e) == Max(0, Min(b.election, e) - Max(b.dissolution, s))

RECURSIVE SumOverlaps(_, _, _)
SumOverlaps(table, s, e) ==
    IF table = <<>> THEN 0
    ELSE Overlap(Head(table), s, e) + SumOverlaps(Tail(table), s, e)

\* Every entry is a period: its dissolution is before its election.
ProperPeriods(table) ==
    \A i \in 1..Len(table) : table[i].dissolution < table[i].election

\* The table is non-overlapping and sorted ascending by dissolution date.
SortedNonOverlapping(table) ==
    /\ ProperPeriods(table)
    /\ \A i, j \in 1..Len(table) :
           i < j => table[i].election <= table[j].dissolution

\* The entry b shares no day with the closed range [s, e].
Disjoint(b, s, e) ==
    (b.dissolution .. (b.election - 1)) \cap (s .. e) = {}

\* ------------------------------------------------------------------------
\* C1: for a valid membership (start < onDate, start <= effective end) and
\* a table whose entries have dissolution < election and dissolution # start,
\* the loop removes max(0, min(election, end) - max(dissolution, start)) for
\* each entry, and getMembershipDays returns (end - start) minus the sum of
\* these overlaps.
\* ------------------------------------------------------------------------
C1_Precondition ==
    /\ Called
    /\ Start < onDate
    /\ Start <= EffectiveEnd
    /\ \A i \in 1..Len(houseDates) :
          /\ houseDates[i].dissolution < houseDates[i].election
          /\ houseDates[i].dissolution # Start

C1_OverlapFormula ==
    C1_Precondition =>
        /\ \A i \in 1..Len(houseDates) :
              dissolutionDelta(houseDates[i], Start, EffectiveEnd)
                  = Return(Overlap(houseDates[i], Start, EffectiveEnd))
        /\ result = Return((EffectiveEnd - Start)
                             - SumOverlaps(houseDates, Start, EffectiveEnd))

\* Two dissolutions are removed, one of them cut short by the end date.
C1_Witness ==
    /\ C1_Precondition
    /\ Len(houseDates) = 2
    /\ Overlap(houseDates[1], Start, EffectiveEnd) > 0
    /\ Overlap(houseDates[2], Start, EffectiveEnd) > 0
    /\ \E i \in 1..2 : houseDates[i].election > EffectiveEnd
    /\ result.raised = ""
    /\ result.value < EffectiveEnd - Start

\* ------------------------------------------------------------------------
\* C2 as stated: whenever getMembershipDays returns a number and the table
\* is non-overlapping and sorted, 0 <= days <= effectiveEnd - start.
\* ------------------------------------------------------------------------
C2_Precondition ==
    /\ Called
    /\ result.raised = ""
    /\ SortedNonOverlapping(houseDates)

C2_BoundsAsStated ==
    C2_Precondition =>
        /\ 0 <= result.value
        /\ result.value <= EffectiveEnd - Start

\* C2 as amended: whenever getMembershipDays returns a number and the
\* table is non-overlapping and sorted (each entry with dissolution <
\* election), 0 <= days <= max(0, effectiveEnd - start): the upper bound
\* is effectiveEnd - start when start <= effectiveEnd, and the result is 0
\* when the effective end lies before the start.
C2_Bounds ==
    C2_Precondition =>
        /\ 0 <= result.value
        /\ result.value <= Max(0, EffectiveEnd - Start)

\* A membership closed after the query date, with a dissolution inside.
C2_Witness ==
    /\ C2_Precondition
    /\ Start < onDate
    /\ Closed
    /\ membership.EndDate.date > onDate
    /\ Len(houseDates) = 2
    /\ SumOverlaps(houseDates, Start, EffectiveEnd) > 0
    /\ result.value > 0
    /\ result.value < EffectiveEnd - Start

\* ------------------------------------------------------------------------
\* C3 as stated: when the membership's start equals the dissolution date of
\* an entry and start < onDate, getMembershipDays raises the MembershipError
\* "Shouldn't happen".
\* ------------------------------------------------------------------------
C3_Precondition ==
    /\ Called
    /\ Start < onDate
    /\ \E i \in 1..Len(houseDates) :
          /\ houseDates[i].dissolution = Start
          /\ houseDates[i].dissolution < houseDates[i].election

C3_RaisesAsStated ==
    C3_Precondition => result.raised = ShouldntHappen

\* What the loop removes for a dissolution that starts on the start date.
RemovedFromStart(b, e) ==
    IF b.dissolution < e THEN Min(b.election, e) - b.dissolution ELSE 0

\* C3 as amended: when the membership's start equals the dissolution date
\* of an entry and start < onDate, getMembershipDays does not raise
\* "Shouldn't happen": the entry is handled like any dissolution that starts
\* inside the membership (min(election, end) - dissolution days are removed
\* when dissolution < end), and a valid membership gets a number.
C3_StartOnDissolution ==
    C3_Precondition =>
        /\ result.raised # ShouldntHappen
        /\ \A i \in 1..Len(houseDates) :
              houseDates[i].dissolution = Start =>
                  dissolutionDelta(houseDates[i], Start, EffectiveEnd)
                      = Return(RemovedFromStart(houseDates[i], EffectiveEnd))
        /\ Start <= EffectiveEnd => result.raised = ""
        /\ (Start <= EffectiveEnd /\ Len(houseDates) = 1) =>
              result.value = (EffectiveEnd - Start)
                               - RemovedFromStart(houseDates[1], EffectiveEnd)

\* A dissolution starting on the start date takes days off the result.
C3_Witness ==
    /\ C3_Precondition
    /\ Len(houseDates) = 1
    /\ houseDates[1].election > Start
    /\ result.raised = ""
    /\ result.value < EffectiveEnd - Start

\* ------------------------------------------------------------------------
\* C4: getMembershipDays raises a MembershipError exactly when
\* start < onDate and the membership has a concrete end earlier than its
\* start; the error is "startDate after endDate".  An open membership never
\* raises, and no other input does.
\* ------------------------------------------------------------------------
C4_DateRangeError ==
    Called =>
        /\ result.raised \in {"", StartAfterEnd}
        /\ result.raised = StartAfterEnd
             <=> (Start < onDate /\ Closed /\ membership.EndDate.date < Start)

C4_Witness ==
    /\ Called
    /\ result.raised = StartAfterEnd
    /\ Closed
    /\ membership.EndDate.date < Start
    /\ houseDates # <<>>

\* ------------------------------------------------------------------------
\* C5: if onDate <= start, getMembershipDays returns 0 and raises nothing,
\* for every membership (also one that ends before it starts) and table.
\* ------------------------------------------------------------------------
C5_ZeroBeforeStart ==
    (Called /\ onDate <= Start) => result = Return(0)

\* Queried on its start date, a membership that ends before it starts.
C5_Witness ==
    /\ Called
    /\ onDate = Start
    /\ Closed
    /\ membership.EndDate.date < Start
    /\ houseDates # <<>>
    /\ result = Return(0)

\* ------------------------------------------------------------------------
\* C6: for a valid membership and a non-overlapping sorted table,
\* getMembershipDays is non-decreasing in onDate over [start, actualEnd]:
\* a query one day later in that range returns at least as many days, so
\* that days(d1) <= days(d2) for all dates d1 <= d2 of the range.
\* ------------------------------------------------------------------------
C6_Precondition ==
    /\ Called
    /\ prev # NoPrev
    /\ Closed => Start <= membership.EndDate.date
    /\ SortedNonOverlapping(houseDates)
    /\ Start <= prev.onDate
    /\ prev.onDate + 1 = onDate
    /\ Closed => onDate <= membership.EndDate.date

C6_Monotone ==
    C6_Precondition =>
        /\ prev.result.raised = ""
        /\ result.raised = ""
        /\ prev.result.value <= result.value

\* Service has grown by the day after an election, with the dissolution
\* before it inside the membership and the next one on its last day.
C6_Witness ==
    /\ C6_Precondition
    /\ Len(houseDates) = 2
    /\ Start < houseDates[1].dissolution
    /\ houseDates[1].election = prev.onDate
    /\ Closed
    /\ houseDates[2].dissolution = membership.EndDate.date
    /\ 0 < prev.result.value
    /\ prev.result.value < result.value

\* ------------------------------------------------------------------------
\* C7: if no period [dissolution, election) of the table shares a day with
\* the clamped range [start, end] of the membership (start < onDate and
\* start <= end), getMembershipDays returns exactly end - start.
\* ------------------------------------------------------------------------
C7_Precondition ==
    /\ Called
    /\ Start < onDate
    /\ Start <= EffectiveEnd
    /\ ProperPeriods(houseDates)
    /\ \A i \in 1..Len(houseDates) :
          Disjoint(houseDates[i], Start, EffectiveEnd)

C7_NoOverlap ==
    C7_Precondition => result = Return(EffectiveEnd - Start)

\* One dissolution ends on the start date and one begins after the end.
C7_Witness ==
    /\ C7_Precondition
    /\ \E i, j \in 1..Len(houseDates) :
          /\ houseDates[i].dissolution < houseDates[i].election
          /\ houseDates[i].election = Start
          /\ houseDates[j].dissolution > EffectiveEnd
          /\ houseDates[j].election > houseDates[j].dissolution
    /\ result.value > 0

\* ------------------------------------------------------------------------
\* Vocabulary of the properties of the attribute resolvers
\* ------------------------------------------------------------------------

Resolved == pc \in {"getConstituencyForMember", "getPartyForMember"}

\* The intervals supplied to the resolver that was called, as a sequence.
Supplied ==
    LET x == IF pc = "getPartyForMember" THEN member.Parties.Party
             ELSE member.Constituencies.Constituency
    IN IF x.isList THEN x.value ELSE <<x.value>>

\* The concrete end of an interval, or today when its end is open.
IntervalEnd(iv) == IF iv.EndDate = Nil THEN today ELSE iv.EndDate.date

\* onDate lies in [start, effectiveEnd] of the interval.
Holds(iv) == iv.StartDate.date <= onDate /\ onDate <= IntervalEnd(iv)

\* The interval starts after its effective end.
Malformed(iv) == iv.StartDate.date > IntervalEnd(iv)

\* Interval i holds onDate, and no interval before it does.
FirstHolding(i) ==
    /\ Holds(Supplied[i])
    /\ \A j \in 1..(i - 1) : ~Holds(Supplied[j])

\* Interval i is malformed and no interval before it holds onDate.
ReachedMalformed(i) ==
    /\ Malformed(Supplied[i])
    /\ \A j \in 1..(i - 1) : ~Holds(Supplied[j])

\* ------------------------------------------------------------------------
\* C8 as stated: the resolver returns 'Not serving on <onDate>' if and only
\* if onDate lies outside [start, effectiveEnd] of every supplied interval,
\* and otherwise returns the value of an interval.
\* ------------------------------------------------------------------------
C8_NotServingAsStated ==
    Resolved =>
        IF \A i \in 1..Len(Supplied) : ~Holds(Supplied[i])
        THEN result = Return(NotServingOn(onDate))
        ELSE /\ result.raised = ""
             /\ \E i \in 1..Len(Supplied) : result.value = Supplied[i].Name

\* C8 as amended: the resolver returns 'Not serving on <onDate>' if and only
\* if onDate lies outside [start, effectiveEnd] of every supplied interval
\* and no supplied interval starts after its effective end; otherwise it
\* returns the value of an interval that holds onDate, or raises the
\* MembershipError of isDateInRange for an interval that starts after its
\* effective end.
C8_NotServing ==
    Resolved =>
        IF /\ \A i \in 1..Len(Supplied) : ~Holds(Supplied[i])
           /\ \A i \in 1..Len(Supplied) : ~Malformed(Supplied[i])
        THEN result = Return(NotServingOn(onDate))
        ELSE \/ /\ result.raised = ""
                /\ \E i \in 1..Len(Supplied) :
                      Holds(Supplied[i]) /\ result.value = Supplied[i].Name
             \/ /\ result.raised = StartLaterThanEnd
                /\ \E i \in 1..Len(Supplied) : Malformed(Supplied[i])

\* onDate is after a closed interval and before an open one.
C8_Witness ==
    /\ Resolved
    /\ Len(Supplied) = 2
    /\ \E i, j \in 1..2 :
          /\ Supplied[i].EndDate # Nil
          /\ Supplied[i].StartDate.date <= Supplied[i].EndDate.date
          /\ Supplied[i].EndDate.date < onDate
          /\ Supplied[j].EndDate = Nil
          /\ onDate < Supplied[j].StartDate.date
          /\ Supplied[j].StartDate.date <= today
    /\ result = Return(NotServingOn(onDate))

\* ------------------------------------------------------------------------
\* C9 as stated: the resolver never raises an error; an interval that
\* starts after its effective end is passed over as not matching.
\* ------------------------------------------------------------------------
C9_NeverRaisesAsStated ==
    Resolved => result.raised = ""

\* C9 as amended: the resolver raises the MembershipError of isDateInRange
\* exactly when its scan reaches an interval that starts after its
\* effective end (a concrete end before the start, or an open interval that
\* starts after today), that is when no interval before that one holds
\* onDate; the scan does not continue with the next interval.
C9_RaisesOnMalformed ==
    Resolved =>
        /\ result.raised \in {"", StartLaterThanEnd}
        /\ result.raised = StartLaterThanEnd
             <=> \E i \in 1..Len(Supplied) : ReachedMalformed(i)

\* The first interval does not hold onDate and the second starts after its end.
C9_Witness ==
    /\ Resolved
    /\ Len(Supplied) = 2
    /\ ~Malformed(Supplied[1])
    /\ ~Holds(Supplied[1])
    /\ Malformed(Supplied[2])
    /\ result.raised = StartLaterThanEnd

\* ------------------------------------------------------------------------
\* C10 as stated: the resolver returns the value of the first interval, in
\* the order supplied, that holds onDate.
\* ------------------------------------------------------------------------
C10_FirstMatchAsStated ==
    Resolved =>
        \A i \in 1..Len(Supplied) :
            FirstHolding(i) => result = Return(Supplied[i].Name)

\* C10 as amended: the resolver scans the intervals in the order supplied,
\* without sorting, and returns the value of the first interval that holds
\* onDate, provided no interval before it starts after its effective end
\* (the scan then ends with the MembershipError of isDateInRange); when
\* several intervals hold onDate the one with the lowest index gives the
\* value, and the intervals after it are not examined, so that one of them
\* that starts after its effective end raises nothing.
C10_FirstMatch ==
    Resolved =>
        \A i \in 1..Len(Supplied) :
            (FirstHolding(i) /\ \A j \in 1..(i - 1) : ~Malformed(Supplied[j]))
                => result = Return(Supplied[i].Name)

\* Two intervals with different values hold onDate; the first one wins.
C10_Witness ==
    /\ Resolved
    /\ Len(Supplied) = 2
    /\ Holds(Supplied[1])
    /\ Holds(Supplied[2])
    /\ Supplied[1].Name # Supplied[2].Name
    /\ Supplied[2].StartDate.date < Supplied[1].StartDate.date
    /\ result = Return(Supplied[1].Name)

\* ------------------------------------------------------------------------
\* C11: for a membership with an open end and start <= today,
\* isDateInMembership returns true exactly when start <= onDate <= today
\* (true on the start date and on today, false the day before the start and
\* after today); for a closed membership it returns true exactly when
\* start <= onDate <= end.
\* ------------------------------------------------------------------------
C11_InMembership ==
    pc = "isDateInMembership" =>
        LET start == membership.StartDate.date
        IN IF membership.EndDate = Nil
           THEN start <= today =>
                    result = Return(start <= onDate /\ onDate <= today)
           ELSE result = Return(TRUE)
                    <=> (start <= onDate /\ onDate <= membership.EndDate.date)

\* An open membership asked about today, after its start date.
C11_Witness ==
    /\ pc = "isDateInMembership"
    /\ membership.EndDate = Nil
    /\ membership.StartDate.date < today
    /\ onDate = today
    /\ result = Return(TRUE)

\* ------------------------------------------------------------------------
\* C14: isDateInRange(onDate, start, end) raises MembershipError when
\* start > end, and otherwise returns true iff start <= onDate <= end, both
\* ends included; isDateInRange(d, d, d) is true.
\* ------------------------------------------------------------------------
C14_InRange ==
    pc = "isDateInRange" =>
        /\ IF range.startDate > range.endDate
           THEN result.raised = StartLaterThanEnd
           ELSE result = Return(range.startDate <= onDate
                                   /\ onDate <= range.endDate)
        /\ (range.startDate = onDate /\ range.endDate = onDate)
              => result = Return(TRUE)

\* The date itself as start and end.
C14_Witness ==
    /\ pc = "isDateInRange"
    /\ range.startDate = onDate
    /\ range.endDate = onDate
    /\ result = Return(TRUE)

\* ------------------------------------------------------------------------
\* Vocabulary of the properties of getServiceDataForMember
\* ------------------------------------------------------------------------

\* The house memberships of the member, as a sequence.
HouseMembershipsOf(mem) ==
    LET x == mem.HouseMemberships.HouseMembership
    IN IF x.isList THEN x.value ELSE <<x.value>>

IsCommons(m) == m.House = "Commons"

\* The memberships of the member whose House is 'Commons'.
CommonsMemberships == SelectSeq(HouseMembershipsOf(member), IsCommons)

\* getMembershipDays of one membership on the query date.
DaysOf(m) == getMembershipDays(m, onDate, housedata_dates)

RECURSIVE SumOfDays(_)
SumOfDays(ms) ==
    IF ms = <<>> THEN 0 ELSE DaysOf(Head(ms)).value + SumOfDays(Tail(ms))

\* The earliest start date of the Commons memberships.
FirstStartDate ==
    CHOOSE d \in {CommonsMemberships[i].StartDate.date :
                     i \in DOMAIN CommonsMemberships} :
        \A i \in DOMAIN CommonsMemberships :
            d <= CommonsMemberships[i].StartDate.date

\* ------------------------------------------------------------------------
\* C12: getServiceDataForMember returns the pair (firstStartDate,
\* totalDays): totalDays is the sum of getMembershipDays over exactly the
\* memberships whose House is 'Commons', firstStartDate the earliest start
\* date of those memberships, whether or not it is after onDate; the
\* memberships of other chambers contribute nothing.  It returns when the
\* member has a Commons membership and getMembershipDays raises for none.
\* ------------------------------------------------------------------------
C12_ServiceData ==
    pc = "getServiceDataForMember" =>
        /\ result.raised = ""
             <=> /\ CommonsMemberships # <<>>
                 /\ \A i \in DOMAIN CommonsMemberships :
                        DaysOf(CommonsMemberships[i]).raised = ""
        /\ result.raised = ""
             => result.value = <<FirstStartDate, SumOfDays(CommonsMemberships)>>

\* Two Commons memberships, the later one listed first and starting after
\* onDate: days are counted and the first start is the second one's.
C12_Witness ==
    /\ pc = "getServiceDataForMember"
    /\ result.raised = ""
    /\ result.value[2] > 0
    /\ Len(CommonsMemberships) = 2
    /\ CommonsMemberships[1].StartDate.date > onDate
    /\ CommonsMemberships[2].StartDate.date < onDate
    /\ result.value[1] = CommonsMemberships[2].StartDate.date

\* ------------------------------------------------------------------------
\* C13: when no membership of the member has House 'Commons',
\* getServiceDataForMember fails with an error and returns no default pair.
\* ------------------------------------------------------------------------
C13_NoCommons ==
    (pc = "getServiceDataForMember" /\ CommonsMemberships = <<>>)
        => result = RaiseAs(ListIndexOutOfRange, NoServiceData)

\* A member whose memberships are all of the Lords.
C13_Witness ==
    /\ pc = "getServiceDataForMember"
    /\ HouseMembershipsOf(member) # <<>>
    /\ CommonsMemberships = <<>>
    /\ result.raised = ListIndexOutOfRange

\* ------------------------------------------------------------------------
\* C15: in every reachable state the table of dissolutions, read in the
\* order of its sorted keys, is in ascending order of dissolution, has
\* dissolution < election in every entry, and has no overlap (each election
\* is on or before the next dissolution); after any calls of the resolvers
\* and of getServiceDataForMember, which calls getMembershipDays, the table
\* is the one loaded from mnis.housedata.
\* ------------------------------------------------------------------------
C15_TableInvariant ==
    /\ houseDates = housedata_dates
    /\ \A i \in DOMAIN houseDates :
           houseDates[i].dissolution < houseDates[i].election
    /\ \A i \in DOMAIN houseDates : \A j \in DOMAIN houseDates :
           i < j => houseDates[i].dissolution < houseDates[j].dissolution
    /\ \A i \in 1..(Len(houseDates) - 1) :
           houseDates[i].election <= houseDates[i + 1].dissolution

\* getServiceDataForMember has read the table: a day of the dissolution of
\* 2015 was taken off a Commons membership.
C15_Witness ==
    /\ pc = "getServiceDataForMember"
    /\ ~isList(member.HouseMemberships.HouseMembership)
    /\ result.raised = ""
    /\ LET m == member.HouseMemberships.HouseMembership.value
       IN /\ m.EndDate = Nil
          /\ result.value[2] > 0
          /\ result.value[2] < onDate - m.StartDate.date
    /\ houseDates = housedata_dates

\* ------------------------------------------------------------------------
\* C18: a member whose memberships are one object gets the same result as
\* the member whose memberships are the list of that one object, from the
\* resolvers and from getServiceDataForMember.
\* ------------------------------------------------------------------------

\* The member with each single membership object put in a list.
Listed(mem) ==
    LET listOf(x) == IF isList(x) THEN x ELSE asList(<<x.value>>)
    IN [Constituencies |->
            [Constituency |-> listOf(mem.Constituencies.Constituency)],
        Parties |-> [Party |-> listOf(mem.Parties.Party)],
        HouseMemberships |->
            [HouseMembership |-> listOf(mem.HouseMemberships.HouseMembership)]]

C16_Precondition ==
    /\ Called
    /\ houseDates = housedata_dates
    /\ Start = Election1987
    /\ Closed => membership.EndDate.date = Dissolution2015

C16_RecordedDays ==
    C16_Precondition =>
        /\ onDate = Election2015 => result = Return(10035)
        /\ onDate = Dissolution1997 => result = Return(3565)
        /\ onDate > Start =>
               result = Return(EffectiveEnd - Start
                                  - SumOverlaps(houseDates, Start, EffectiveEnd))

\* The open membership from 1987-06-11 asked about on 2015-05-07.
C16_Witness ==
    /\ C16_Precondition
    /\ ~Closed
    /\ onDate = Election2015
    /\ result = Return(10035)

\* ------------------------------------------------------------------------
\* C20: for a membership with a concrete end and start <= end, and every
\* onDate >= end, getMembershipDays gives what it gives at onDate = end.
\* ------------------------------------------------------------------------
C20_Precondition ==
    /\ Called
    /\ Closed
    /\ Start <= membership.EndDate.date
    /\ onDate >= membership.EndDate.date

C20_StopsAtEnd ==
    C20_Precondition =>
        result = getMembershipDays(membership, membership.EndDate.date,
                                   houseDates)

\* A query after the end of a membership that has days of service.
C20_Witness ==
    /\ C20_Precondition
    /\ onDate > membership.EndDate.date
    /\ result.raised = ""
    /\ result.value > 0

\* ------------------------------------------------------------------------
\* C17: getMembershipDays depends on the membership, onDate and the table
\* only: called again with the same inputs on a different current date it
\* gives the same result or the same error, an open end being onDate.  A
\* resolver called again on a different current date gives the same result
\* when every supplied interval has a concrete end; its results differ only
\* when some interval has an open end.
\* ------------------------------------------------------------------------

\* The last call repeated an earlier one on another current date.
Repeated == prev # NoPrev

C17_AmbientDate ==
    /\ (Called /\ Repeated) => result = prev.result
    /\ (Resolved /\ Repeated /\ result # prev.result)
         => \E i \in DOMAIN Supplied : Supplied[i].EndDate = Nil

\* An open membership whose days were counted up to onDate on two current
\* dates, the later one before onDate.
C17_Witness ==
    /\ Called
    /\ Repeated
    /\ ~Closed
    /\ today < onDate
    /\ result.raised = ""
    /\ result.value > 0

\* ------------------------------------------------------------------------
\* C19: getSummaryDataForMembers returns one row for each member of the
\* list, in the order of the list, each with its own member's constituency,
\* party, first start date and days of service at onDate; or it raises the
\* first error that processing a member raises, and returns no row: no
\* member is left out.
\* ------------------------------------------------------------------------

\* The first error of the calls made for one member, or "" if none fails.
FirstErrorOf(mem) ==
    LET raised == <<getConstituencyForMember(mem, onDate).raised,
                    getPartyForMember(mem, onDate).raised,
                    getServiceDataForMember(mem, onDate).raised>>
        failed == {k \in 1..3 : raised[k] # ""}
    IN IF failed = {} THEN ""
       ELSE raised[CHOOSE k \in failed : \A l \in failed : k <= l]

\* The members of the list that some call fails for.
FailingMembers == {i \in DOMAIN members : FirstErrorOf(members[i]) # ""}

\* Row i carries the data of member i.
RowOfMember(i) ==
    LET row == result.value[i]
        mem == members[i]
    IN /\ row.member_id = mem.Member_Id
       /\ row.list_name = mem.ListAs
       /\ row.gender = mem.Gender
       /\ row.date_of_birth = mem.DateOfBirth.date
       /\ row.constituency = getConstituencyForMember(mem, onDate).value
       /\ row.party = getPartyForMember(mem, onDate).value
       /\ <<row.first_start_date, row.days_service>>
              = getServiceDataForMember(mem, onDate).value

C19_AllRowsOrFirstError ==
    pc = "getSummaryDataForMembers" =>
        IF FailingMembers = {}
        THEN /\ result.raised = ""
             /\ Len(result.value) = Len(members)
             /\ \A i \in DOMAIN members : RowOfMember(i)
        ELSE LET first == CHOOSE i \in FailingMembers :
                              \A j \in FailingMembers : i <= j
             IN result = RaiseAs(FirstErrorOf(members[first]), <<>>)

\* A member that fails after one that does not: no row is returned.
C19_Witness ==
    /\ pc = "getSummaryDataForMembers"
    /\ Len(members) = 2
    /\ FailingMembers = {2}
    /\ result.raised # ""
    /\ result.value = <<>>

\* ------------------------------------------------------------------------
\* C21: service days are additive over a split.  For start < mid < end <=
\* onDate and any table with dissolution < election in each entry,
\* getMembershipDays of the closed membership [start, end] is that of
\* [start, mid] plus that of [mid, end]; and a member whose membership is
\* replaced by the two adjacent ones gets the same pair from
\* getServiceDataForMember.
\* ------------------------------------------------------------------------

\* The membership m with other start and end dates.
Between(m, s, e) ==
    [m EXCEPT !.StartDate = [date |-> s, time |-> "T00:00:00"],
              !.EndDate = [date |-> e, time |-> "T00:00:00"]]

\* The dates strictly inside a closed membership that has ended by onDate.
SplitDates(m) ==
    IF m.EndDate # Nil /\ m.EndDate.date <= onDate
    THEN (m.StartDate.date + 1)..(m.EndDate.date - 1)
    ELSE {}

\* The member with its i-th house membership split in two at mid.
SplitMember(i, mid) ==
    LET ms == HouseMembershipsOf(member)
        m == ms[i]
        split == SubSeq(ms, 1, i - 1)
                     \o <<Between(m, m.StartDate.date, mid),
                          Between(m, mid, m.EndDate.date)>>
                     \o SubSeq(ms, i + 1, Len(ms))
    IN [member EXCEPT !.HouseMemberships.HouseMembership = asList(split)]

C21_Additive ==
    /\ Called =>
           \A mid \in SplitDates(membership) :
               LET first == getMembershipDays(Between(membership, Start, mid),
                                              onDate, houseDates)
                   second ==
                       getMembershipDays(
                           Between(membership, mid, membership.EndDate.date),
                           onDate, houseDates)
               IN /\ first.raised = ""
                  /\ second.raised = ""
                  /\ result = Return(first.value + second.value)
    /\ (pc = "getServiceDataForMember" /\ result.raised = "") =>
           \A i \in DOMAIN HouseMembershipsOf(member) :
               \A mid \in SplitDates(HouseMembershipsOf(member)[i]) :
                   getServiceDataForMember(SplitMember(i, mid), onDate) = result

\* A membership with days of service, split inside a dissolution that it
\* spans.
C21_Witness ==
    /\ Called
    /\ result.raised = ""
    /\ result.value > 0
    /\ \E mid \in SplitDates(membership) : \E i \in DOMAIN houseDates :
           /\ Start <= houseDates[i].dissolution
           /\ houseDates[i].dissolution < mid
           /\ mid < houseDates[i].election
           /\ houseDates[i].election <= membership.EndDate.date
====
